---- MODULE Spec2Model ----
(***************************************************************************)
(* Meeting point optimisation of meetupspot:                               *)
(*   main/services/optimization_service.py  MeetupOptimizationService      *)
(*   main/services/tfl_service.py           TflApiService and its helpers  *)
(*                                                                         *)
(* Representation.                                                         *)
(*  - Python's None is the empty sequence, a present value x is <<x>>.     *)
(*  - Coordinates are integers of a small grid.  A mean sum(xs)/n is kept  *)
(*    exactly, as a fraction.                                              *)
(*  - A score is the real number  total + (w_num/w_den) * sqrt(nstd2),     *)
(*    where nstd2 = (len * population std)^2 is an integer; float('inf')   *)
(*    is the flag inf.  Scores are compared exactly (floating point        *)
(*    rounding is not modelled).                                           *)
(*  - A venue dict is a record; the caller's list holds references into    *)
(*    heap, so that aliasing between the caller's dicts and the returned   *)
(*    dict is visible.                                                     *)
(***************************************************************************)
EXTENDS Integers, Sequences, FiniteSets, TLC

VARIABLES
  fairness_weight,    \* self.fairness_weight, the rational [num, den]
  pc,                 \* find_optimal_meeting_point: "idle", "loop", "returned", "raised"
  participants_data,  \* argument: list of participant dicts
  callerVenues,       \* the caller's list object: references into heap
  heap,               \* the venue dicts the caller's list refers to
  max_candidates,     \* argument
  potential_venues,   \* the local name potential_venues (after the pre-filter)
  evaluated,          \* history: venues whose loop body was entered, in order
  venue_scores,       \* the list venue_scores
  scored,             \* history: venue_scores in append order, before the sort
  quotes,             \* history: per scored venue, what calculate_journey_time returned per leg
  result,             \* return value: None or <<best_venue>>
  sc_times,           \* _calculate_journey_score: argument (None before the call)
  sc_score,           \* _calculate_journey_score: return value (None before the call)
  tfl_call,           \* calculate_journey_time: arguments and HTTP outcome (None before the call)
  tfl_fastest,        \* calculate_journey_time: index of fastest_journey (0 when none)
  tfl_result,         \* calculate_journey_time: return value, None or <<minutes>>
  gen_pc,             \* get_potential_meeting_venues: "idle", "returned", "raised"
  gen_participants,   \* argument
  gen_limit,          \* argument
  gen_http,           \* outcome of the HTTP request made for the station lookup
  catalog_queried,    \* whether get_nearest_stations was called
  cache,              \* django cache: cache key -> [data, expires]
  gen_result,         \* return value
  now,                \* the time, in seconds
  ticks,              \* history: how many times the time advanced
  requests,           \* history: how many lookups and quotes were made
  last,               \* history: the last lookup or quote (None before the first)
  quoted_at           \* history: coordinate pair -> times of its successful quotes

optVars == <<pc, participants_data, callerVenues, heap, max_candidates,
             potential_venues, evaluated, venue_scores, scored, quotes, result>>
scoreVars == <<sc_times, sc_score>>
tflVars == <<tfl_call, tfl_fastest, tfl_result>>
genVars == <<gen_pc, gen_participants, gen_limit, gen_http, catalog_queried,
             cache, gen_result>>
timeVars == <<now, ticks, requests, last, quoted_at>>
vars == <<fairness_weight, optVars, scoreVars, tflVars, genVars, timeVars>>

----------------------------------------------------------------------------
(* Bounds of the model *)

MaxParticipants == 2
MaxVenues == 3
MaxFailedLegs == 2
MaxTimes == 3
MaxJourneys == 3
MaxDuration == 2
MaxStations == 3
WeightDen == 2

----------------------------------------------------------------------------
(* Python values *)

None == <<>>

Some(x) == <<x>>

Abs(x) == IF x < 0 THEN 0 - x ELSE x

RECURSIVE SumSeq(_)
SumSeq(s) == IF s = <<>> THEN 0 ELSE Head(s) + SumSeq(Tail(s))

Take(s, n) == SubSeq(s, 1, IF n < Len(s) THEN n ELSE Len(s))

----------------------------------------------------------------------------
(* _calculate_journey_score *)

DefaultFairnessWeight == [num |-> 1, den |-> 2]

\* (len(xs) * np.std(xs))^2.  np.std is sqrt(mean(abs(x - mean(xs))^2)); with
\* n = len(xs) and S = sum(xs), x - mean = (n*x - S)/n, so the value is
\* sum((n*x - S)^2) / n, an integer.
NStd2(journey_times) ==
  LET n == Len(journey_times)
      S == SumSeq(journey_times)
  IN SumSeq([i \in 1..n |-> (n * journey_times[i] - S) * (n * journey_times[i] - S)]) \div n

\* float('inf')
InfScore(w) == [inf |-> TRUE, total |-> 0, nstd2 |-> 0, w_num |-> w.num, w_den |-> w.den]

FiniteScore(w, total, nstd2) ==
  [inf |-> FALSE, total |-> total, nstd2 |-> nstd2, w_num |-> w.num, w_den |-> w.den]

\* _calculate_journey_score with the mean not subtracted before squaring
_calculate_journey_score_no_mean(w, journey_times) ==
  IF journey_times = <<>> THEN InfScore(w)
  ELSE FiniteScore(w, SumSeq(journey_times),
                   SumSeq([i \in 1..Len(journey_times) |->
                             journey_times[i] * journey_times[i]]))

_calculate_journey_score(w, journey_times) ==
  IF journey_times = <<>> THEN InfScore(w)
  ELSE FiniteScore(w, SumSeq(journey_times),
                   IF Len(journey_times) > 1 THEN NStd2(journey_times) ELSE 0)

\* sqrt(A) - sqrt(B) <= K, for naturals A, B and an integer K
SqrtDiffLeq(A, B, K) ==
  IF K >= 0
  THEN LET M == A - B - K * K IN (M <= 0) \/ (M * M <= 4 * K * K * B)
  ELSE LET M == B - A - K * K IN (M >= 0) /\ (M * M >= 4 * K * K * A)

\* a <= b on the floats the scores stand for (both computed with the same weight)
ScoreLeq(a, b) ==
  IF b.inf THEN TRUE
  ELSE IF a.inf THEN FALSE
  ELSE SqrtDiffLeq(a.w_num * a.w_num * a.nstd2, b.w_num * b.w_num * b.nstd2,
                   a.w_den * (b.total - a.total))

ScoreLess(a, b) == ~ScoreLeq(b, a)

ScoreEq(a, b) == ScoreLeq(a, b) /\ ScoreLeq(b, a)

\* the float that is the number k
Float(k) == FiniteScore([num |-> 0, den |-> 1], k, 0)

\* sorted(xs, key=...) / list.sort(key=...): stable, ascending.  The list is a
\* sequence of [key, item]; an element is inserted after every element whose key
\* it is not less than.
RECURSIVE InsertSorted(_, _)
InsertSorted(x, s) ==
  IF s = <<>> THEN <<x>>
  ELSE IF ScoreLess(x.key, Head(s).key) THEN <<x>> \o s
  ELSE <<Head(s)>> \o InsertSorted(x, Tail(s))

RECURSIVE StableSort(_)
StableSort(s) ==
  IF s = <<>> THEN <<>>
  ELSE InsertSorted(s[Len(s)], StableSort(SubSeq(s, 1, Len(s) - 1)))

\* the items xs sorted by the keys ks (ks[i] the key of xs[i])
SortedByKey(xs, ks) ==
  LET sorted == StableSort([i \in 1..Len(xs) |-> [key |-> ks[i], item |-> xs[i]]])
  IN [i \in 1..Len(xs) |-> sorted[i].item]

----------------------------------------------------------------------------
(* TflApiService._make_request, plan_journey, calculate_journey_time *)

\* The outcome of requests.get + raise_for_status + response.json()
HttpError == [ok |-> FALSE, data |-> None]

HttpOk(data) == [ok |-> TRUE, data |-> Some(data)]

\* A JSON object of a response: the keys it holds, and the values of the keys
\* 'journeys' (Journey/JourneyResults) and 'stopPoints' (StopPoint) when held
JsonDict(keys, journeys, stopPoints) ==
  [keys |-> keys, journeys |-> journeys, stopPoints |-> stopPoints]

\* the JSON of Journey/JourneyResults listing the itineraries js
JourneyData(js) == JsonDict({"journeys"}, js, <<>>)

\* a journey dict; duration is j.get('duration'): None when the key is absent
Itinerary(d) == [duration |-> Some(d)]

\* j.get('duration', float('inf'))
DurationKey(j) ==
  IF j.duration = None THEN InfScore([num |-> 0, den |-> 1]) ELSE Float(j.duration[1])

\* TflApiService.CACHE_TIMEOUT = 60 * 60 * 24 seconds
CACHE_TIMEOUT == 86400

\* cache.get(key) at time t: None when the key is absent or its entry has expired
CacheGet(c, t, key) ==
  IF key \in DOMAIN c /\ t < c[key].expires THEN Some(c[key].data) ELSE None

\* cache.set(key, data, timeout) at time t
CacheSet(c, t, key, data, timeout) == (key :> [data |-> data, expires |-> t + timeout]) @@ c

\* cache_timeout or self.CACHE_TIMEOUT (cache_timeout is None or <<seconds>>)
Timeout(cache_timeout) ==
  IF cache_timeout = None \/ cache_timeout[1] = 0 THEN CACHE_TIMEOUT ELSE cache_timeout[1]

\* bool(data) of a response dict: an empty dict is falsy
Truthy(data) == data.keys # {}

\* _make_request(endpoint, params, cache_key, cache_timeout) at time t: cache_key
\* is None or <<key>>; http is the outcome the network gives if it is contacted.
_make_request(c, t, cache_key, cache_timeout, http) ==
  LET cached_data == IF cache_key = None THEN None ELSE CacheGet(c, t, cache_key[1])
  IN IF cache_key # None /\ cached_data # None /\ Truthy(cached_data[1])
     THEN [data |-> cached_data, cache |-> c, contacted |-> FALSE]
     ELSE IF http.ok
     THEN [data |-> http.data,
           cache |-> IF cache_key # None
                     THEN CacheSet(c, t, cache_key[1], http.data[1], Timeout(cache_timeout))
                     ELSE c,
           contacted |-> TRUE]
     ELSE [data |-> None, cache |-> c, contacted |-> TRUE]

\* plan_journey with the response cached under the coordinate pair
plan_journey_cached(c, t, from_lat, from_lon, to_lat, to_lon, http) ==
  _make_request(c, t, Some(<<"tfl_journey", from_lat, from_lon, to_lat, to_lon>>), None, http)

\* plan_journey(from_lat, from_lon, to_lat, to_lon) without time, date or arrival
\* flag: no cache key is passed
plan_journey(c, t, from_lat, from_lon, to_lat, to_lon, http) ==
  _make_request(c, t, None, None, http)

\* min(journeys, key=duration): the index of the first itinerary of least duration
RECURSIVE MinFrom(_, _, _)
MinFrom(journeys, best, i) ==
  IF i > Len(journeys) THEN best
  ELSE IF ScoreLess(DurationKey(journeys[i]), DurationKey(journeys[best]))
       THEN MinFrom(journeys, i, i + 1)
       ELSE MinFrom(journeys, best, i + 1)

\* fastest_journey taken to be the last itinerary the oracle lists
FastestIndexLast(journeys) == Len(journeys)

FastestIndex(journeys) == MinFrom(journeys, 1, 2)

\* calculate_journey_time: value is None or <<minutes>>; fastest is the index of
\* fastest_journey (0 when there is none)
calculate_journey_time(c, t, from_lat, from_lon, to_lat, to_lon, http) ==
  LET planned == plan_journey(c, t, from_lat, from_lon, to_lat, to_lon, http)
      journey_data == planned.data
  IN IF /\ journey_data # None
        /\ Truthy(journey_data[1])
        /\ "journeys" \in journey_data[1].keys
        /\ journey_data[1].journeys # <<>>
     THEN LET f == FastestIndex(journey_data[1].journeys)
          IN [value |-> journey_data[1].journeys[f].duration, fastest |-> f,
              cache |-> planned.cache, contacted |-> planned.contacted]
     ELSE [value |-> None, fastest |-> 0,
           cache |-> planned.cache, contacted |-> planned.contacted]

----------------------------------------------------------------------------
(* The journey planner as the optimiser sees it: for a pair of coordinates the
   service either fails or lists two itineraries, the slower first. *)

TravelMinutes(from_lat, from_lon, to_lat, to_lon) ==
  1 + Abs(to_lat - from_lat) + Abs(to_lon - from_lon)

TflJourneys(from_lat, from_lon, to_lat, to_lon) ==
  LET d == TravelMinutes(from_lat, from_lon, to_lat, to_lon)
  IN <<Itinerary(d + 1), Itinerary(d)>>

\* failed: the request raises RequestException
TflResponse(failed, from_lat, from_lon, to_lat, to_lon) ==
  IF failed THEN HttpError
  ELSE HttpOk(JourneyData(TflJourneys(from_lat, from_lon, to_lat, to_lon)))

----------------------------------------------------------------------------
(* find_optimal_meeting_point *)

Roster ==
  << [start_lat |-> 0, start_lon |-> 0, end_lat |-> 2, end_lon |-> 1],
     [start_lat |-> 2, start_lon |-> 0, end_lat |-> 2, end_lon |-> 2],
     [start_lat |-> 1, start_lon |-> 2, end_lat |-> 1, end_lon |-> 0],
     [start_lat |-> 0, start_lon |-> 2, end_lat |-> 0, end_lon |-> 0] >>

ParticipantLists == {SubSeq(Roster, 1, n) : n \in 0..MaxParticipants}

VenuePoints == {[lat |-> 0, lon |-> 0], [lat |-> 1, lon |-> 1], [lat |-> 2, lon |-> 2]}

Caps == {0, 1, 2}

\* the venue dicts of a caller's list of k venues at the points at[1..k]
VenueHeap(k, at) == [r \in 1..k |-> [id |-> r, lat |-> at[r].lat, lon |-> at[r].lon]]

\* calc_distance(venue), squared and scaled by len(participants_data)^2:
\* (lat - avg_lat)^2 + (lon - avg_lon)^2 with avg = sum / n
calc_distance2(venue, participants) ==
  LET n == Len(participants)
      sum_lat == SumSeq([i \in 1..n |-> participants[i].start_lat])
      sum_lon == SumSeq([i \in 1..n |-> participants[i].start_lon])
  IN (n * venue.lat - sum_lat) * (n * venue.lat - sum_lat)
     + (n * venue.lon - sum_lon) * (n * venue.lon - sum_lon)

\* the pre-filter keeping the first max_candidates of the input order
PrefilterUnsorted(venues, h, participants, cap) == Take(venues, cap)

\* sorted(potential_venues, key=calc_distance)[:max_candidates]
Prefilter(venues, h, participants, cap) ==
  Take(SortedByKey(venues, [i \in 1..Len(venues) |->
                              Float(calc_distance2(h[venues[i]], participants))]), cap)

\* len(potential_venues) > max_candidates
NeedsPrefilter(venues, cap) == Len(venues) > cap

\* x or 0
OrZero(x) == IF x = None THEN 0 ELSE x[1]

\* total_time counting only the outbound leg
total_time_outbound_only(start_to_venue, venue_to_end) == start_to_venue

\* total_time = start_to_venue + venue_to_end
total_time(start_to_venue, venue_to_end) == start_to_venue + venue_to_end

\* what calculate_journey_time returns for the two legs of participant p at venue v
LegQuotes(c, t, p, v, failed) ==
  [out |-> calculate_journey_time(c, t, p.start_lat, p.start_lon, v.lat, v.lon,
                                  TflResponse(failed.out, p.start_lat, p.start_lon,
                                              v.lat, v.lon)).value,
   ret |-> calculate_journey_time(c, t, v.lat, v.lon, p.end_lat, p.end_lon,
                                  TflResponse(failed.ret, v.lat, v.lon,
                                              p.end_lat, p.end_lon)).value]

\* the inner loop: all_journey_times from the quotes
AllJourneyTimes(qs) ==
  [i \in 1..Len(qs) |-> total_time(OrZero(qs[i].out), OrZero(qs[i].ret))]

\* venue_scores.sort(key=score, reverse=True)
SortByScoreDescending(vs) ==
  LET asc == SortedByKey(vs, [i \in 1..Len(vs) |-> vs[i].score])
  IN [i \in 1..Len(vs) |-> asc[Len(vs) + 1 - i]]

\* venue_scores.sort(key=lambda x: x['score'])
SortByScore(vs) == SortedByKey(vs, [i \in 1..Len(vs) |-> vs[i].score])

\* best_venue without the copy: the score is written into the caller's dict
best_venue_in_place(h, entry) ==
  LET best == [score |-> entry.score, journey_times |-> entry.journey_times] @@ h[entry.venue]
  IN [heap |-> [h EXCEPT ![entry.venue] = best], value |-> best]

\* best_venue = venue_scores[0]['venue'].copy() with 'score' and 'journey_times' set
best_venue(h, entry) ==
  [heap |-> h,
   value |-> [score |-> entry.score, journey_times |-> entry.journey_times] @@ h[entry.venue]]

\* the end of the call once the loop is over: sort, then the best venue or None
Return(vs) ==
  LET sorted == SortByScore(vs)
  IN /\ venue_scores' = sorted
     /\ pc' = "returned"
     /\ IF sorted # <<>>
        THEN LET best == best_venue(heap, sorted[1])
             IN heap' = best.heap /\ result' = Some(best.value)
        ELSE heap' = heap /\ result' = None

\* the call, up to the first iteration of the loop over the venues
find_optimal_meeting_point ==
  /\ pc = "idle"
  /\ \E ps \in ParticipantLists, k \in 0..MaxVenues, cap \in Caps :
       \E at \in [1..k -> VenuePoints] :
         LET h == VenueHeap(k, at)
             venues == [r \in 1..k |-> r]
         IN /\ participants_data' = ps
            /\ callerVenues' = venues
            /\ max_candidates' = cap
            /\ evaluated' = <<>>
            /\ scored' = <<>>
            /\ quotes' = <<>>
            /\ IF NeedsPrefilter(venues, cap) /\ ps = <<>>
               THEN \* ZeroDivisionError at avg_lat
                    /\ pc' = "raised"
                    /\ heap' = h
                    /\ potential_venues' = venues
                    /\ venue_scores' = <<>>
                    /\ result' = None
               ELSE LET pv == IF NeedsPrefilter(venues, cap)
                              THEN Prefilter(venues, h, ps, cap) ELSE venues
                    IN /\ potential_venues' = pv
                       /\ IF pv = <<>>
                          THEN /\ venue_scores' = <<>>
                               /\ pc' = "returned"
                               /\ heap' = h
                               /\ result' = None
                          ELSE /\ venue_scores' = <<>>
                               /\ pc' = "loop"
                               /\ heap' = h
                               /\ result' = None
  /\ UNCHANGED <<fairness_weight, scoreVars, tflVars, genVars, timeVars>>

\* the number of failed legs in a failure pattern of one venue
FailedLegs(failed) ==
  Cardinality({i \in DOMAIN failed : failed[i].out})
  + Cardinality({i \in DOMAIN failed : failed[i].ret})

\* the number of legs that failed so far in this call
FailedSoFar ==
  SumSeq([i \in 1..Len(quotes) |->
            Cardinality({p \in 1..Len(quotes[i]) : quotes[i][p].out = None})
            + Cardinality({p \in 1..Len(quotes[i]) : quotes[i][p].ret = None})])

\* which legs of the n participants fail at one venue: the planner fails at most
\* MaxFailedLegs times during one call
FailurePatterns(n) ==
  {failed \in [1..n -> [out : BOOLEAN, ret : BOOLEAN]] :
     FailedSoFar + FailedLegs(failed) <= MaxFailedLegs}

\* one iteration of the loop whose try block completes; the last one is followed
\* by the sort and the return
ScoreVenue ==
  /\ pc = "loop"
  /\ LET v == potential_venues[Len(evaluated) + 1]
         n == Len(participants_data)
     IN \E failed \in FailurePatterns(n) :
          LET qs == [i \in 1..n |-> LegQuotes(cache, now, participants_data[i], heap[v], failed[i])]
              all_journey_times == AllJourneyTimes(qs)
              score == _calculate_journey_score(fairness_weight, all_journey_times)
              entry == [venue |-> v, score |-> score, journey_times |-> all_journey_times]
              vs == Append(venue_scores, entry)
          IN /\ evaluated' = Append(evaluated, v)
             /\ scored' = Append(scored, entry)
             /\ quotes' = Append(quotes, qs)
             /\ IF Len(evaluated) + 1 = Len(potential_venues)
                THEN Return(vs)
                ELSE /\ venue_scores' = vs
                     /\ UNCHANGED <<pc, heap, result>>
  /\ UNCHANGED <<participants_data, callerVenues, max_candidates, potential_venues>>
  /\ UNCHANGED <<fairness_weight, scoreVars, tflVars, genVars, timeVars>>

\* one iteration of the loop whose try block raises (a payload that is not the
\* expected JSON): the error is logged and the venue is not scored
SkipVenue ==
  /\ pc = "loop"
  /\ participants_data # <<>>
  /\ evaluated' = Append(evaluated, potential_venues[Len(evaluated) + 1])
  /\ IF Len(evaluated) + 1 = Len(potential_venues)
     THEN Return(venue_scores)
     ELSE UNCHANGED <<pc, heap, result, venue_scores>>
  /\ UNCHANGED <<participants_data, callerVenues, max_candidates, potential_venues,
                 scored, quotes>>
  /\ UNCHANGED <<fairness_weight, scoreVars, tflVars, genVars, timeVars>>

----------------------------------------------------------------------------
(* Calls of _calculate_journey_score and calculate_journey_time on their own *)

JourneyMinutes == {0, 8, 10, 12, 20}

TimeLists == UNION {[1..n -> JourneyMinutes] : n \in 0..MaxTimes}

\* fairness weights k/WeightDen of [0, 1]
FairnessWeights == {[num |-> k, den |-> WeightDen] : k \in 0..WeightDen}

\* one call of _calculate_journey_score (the function keeps no state between calls)
CalculateJourneyScoreCall ==
  /\ sc_times = None
  /\ \E journey_times \in TimeLists :
       /\ sc_times' = Some(journey_times)
       /\ sc_score' = Some(_calculate_journey_score(fairness_weight, journey_times))
  /\ UNCHANGED <<fairness_weight, optVars, tflVars, genVars, timeVars>>

GridPoints == {[lat |-> 0, lon |-> 0], [lat |-> 1, lon |-> 1], [lat |-> 2, lon |-> 0]}

ItineraryLists == UNION {[1..n -> {Itinerary(d) : d \in 0..MaxDuration}] : n \in 0..MaxJourneys}

\* what the network may answer to Journey/JourneyResults: an error, an empty
\* object, an object without 'journeys', or a list of itineraries
JourneyHttpOutcomes ==
  {HttpError, HttpOk(JsonDict({}, <<>>, <<>>)), HttpOk(JsonDict({"message"}, <<>>, <<>>))}
  \cup {HttpOk(JourneyData(js)) : js \in ItineraryLists}

\* one call of calculate_journey_time
CalculateJourneyTimeCall ==
  /\ tfl_call = None
  /\ \E from \in GridPoints, to \in GridPoints, http \in JourneyHttpOutcomes :
       LET r == calculate_journey_time(cache, now, from.lat, from.lon, to.lat, to.lon, http)
       IN /\ tfl_call' = Some([from_lat |-> from.lat, from_lon |-> from.lon,
                               to_lat |-> to.lat, to_lon |-> to.lon, http |-> http])
          /\ tfl_result' = r.value
          /\ tfl_fastest' = r.fastest
          /\ cache' = r.cache
  /\ UNCHANGED <<gen_pc, gen_participants, gen_limit, gen_http, catalog_queried, gen_result>>
  /\ UNCHANGED <<fairness_weight, optVars, scoreVars, timeVars>>

----------------------------------------------------------------------------
(* get_station_nearby, get_nearest_stations, get_potential_meeting_venues *)

SearchRadius == 1500

NearestLimit == 5

RECURSIVE Gcd(_, _)
Gcd(a, b) == IF b = 0 THEN a ELSE Gcd(b, a % b)

\* the float sum / n, as a fraction in lowest terms (sum >= 0, n > 0)
Mean(sum, n) == [num |-> sum \div Gcd(sum, n), den |-> n \div Gcd(sum, n)]

Station(id, lat, lon, distance) ==
  [id |-> id, commonName |-> id, lat |-> lat, lon |-> lon, distance |-> distance]

Stations == {Station("stA", 1, 1, 5), Station("stB", 1, 0, 3), Station("stC", 0, 1, 3)}

StationLists == UNION {[1..n -> Stations] : n \in 0..MaxStations}

\* what the network may answer to StopPoint
StationHttpOutcomes ==
  {HttpError, HttpOk(JsonDict({}, <<>>, <<>>)), HttpOk(JsonDict({"message"}, <<>>, <<>>))}
  \cup {HttpOk(JsonDict({"stopPoints"}, <<>>, sts)) : sts \in StationLists}

\* get_station_nearby(lat, lon, radius): stations is the list returned
get_station_nearby(c, t, lat, lon, radius, http) ==
  LET cache_key == <<"tfl_nearby", lat, lon, radius, "None">>
      made == _make_request(c, t, Some(cache_key), None, http)
      response == made.data
  IN [stations |-> IF /\ response # None
                      /\ Truthy(response[1])
                      /\ "stopPoints" \in response[1].keys
                   THEN response[1].stopPoints ELSE <<>>,
      response |-> response,
      cache_key |-> cache_key,
      cache |-> made.cache,
      contacted |-> made.contacted]

\* get_nearest_stations(lat, lon, radius, limit)
get_nearest_stations(c, t, lat, lon, radius, limit, http) ==
  LET near == get_station_nearby(c, t, lat, lon, radius, http)
      sorted_stations == SortedByKey(near.stations, [i \in 1..Len(near.stations) |->
                                                       Float(near.stations[i].distance)])
  IN [stations |-> Take(sorted_stations, limit), cache |-> near.cache,
      contacted |-> near.contacted]

\* the JSON of StopPoint/Search listing the matches ms
SearchData(ms) == [keys |-> {"matches"}, matches |-> ms]

\* search_stations(query): value is the list returned
search_stations(c, t, query, http) ==
  LET cache_key == <<"tfl_station_search", query, "None">>
      made == _make_request(c, t, Some(cache_key), None, http)
      response == made.data
  IN [value |-> IF /\ response # None
                   /\ Truthy(response[1])
                   /\ "matches" \in response[1].keys
                THEN response[1].matches ELSE <<>>,
      response |-> response,
      cache_key |-> cache_key,
      cache |-> made.cache,
      contacted |-> made.contacted]

\* the JSON of StopPoint/{id}: a station dict
StationData(id) == [keys |-> {"id", "commonName"}, id |-> id, commonName |-> id]

\* get_station_by_id(station_id): the response is returned as it is
get_station_by_id(c, t, station_id, http) ==
  LET cache_key == <<"tfl_station", station_id>>
      made == _make_request(c, t, Some(cache_key), None, http)
  IN [value |-> made.data,
      response |-> made.data,
      cache_key |-> cache_key,
      cache |-> made.cache,
      contacted |-> made.contacted]

\* the JSON of Line/Status: a list of line statuses, held with its indices as
\* keys so that bool() of the empty list is False as for the empty dict
LineStatusData(lines) == [keys |-> DOMAIN lines, items |-> lines]

\* get_line_status(line_ids): line_ids is None or <<list>>; the response is
\* returned as it is.  line_ids or 'all' is <<"all">> or the list after "ids".
get_line_status(c, t, line_ids, http) ==
  LET cache_key == <<"tfl_line_status",
                     IF line_ids = None \/ line_ids[1] = <<>>
                     THEN <<"all">> ELSE <<"ids">> \o line_ids[1]>>
      cache_timeout == 60 * 5
      made == _make_request(c, t, Some(cache_key), Some(cache_timeout), http)
  IN [value |-> made.data,
      response |-> made.data,
      cache_key |-> cache_key,
      cache |-> made.cache,
      contacted |-> made.contacted]

\* the venue dict built for a station
StationVenue(station) ==
  [id |-> station.id, name |-> station.commonName, lat |-> station.lat,
   lon |-> station.lon, type |-> "station", description |-> station.commonName]

\* all_points: the start and the end point of every participant
AllPoints(participants) ==
  [i \in 1..(2 * Len(participants)) |->
     LET p == participants[(i + 1) \div 2]
     IN IF i % 2 = 1 THEN <<p.start_lat, p.start_lon>> ELSE <<p.end_lat, p.end_lon>>]

Limits == {0, 1, 2, 20}

get_potential_meeting_venues ==
  /\ gen_pc = "idle"
  /\ \E ps \in ParticipantLists, limit \in Limits, http \in StationHttpOutcomes :
       LET all_points == AllPoints(ps)
       IN /\ gen_participants' = ps
          /\ gen_limit' = limit
          /\ IF Len(all_points) = 0
             THEN \* ZeroDivisionError at center_lat
                  /\ gen_pc' = "raised"
                  /\ gen_http' = None
                  /\ catalog_queried' = FALSE
                  /\ gen_result' = None
                  /\ cache' = cache
             ELSE LET center_lat == Mean(SumSeq([i \in 1..Len(all_points) |-> all_points[i][1]]),
                                         Len(all_points))
                      center_lon == Mean(SumSeq([i \in 1..Len(all_points) |-> all_points[i][2]]),
                                         Len(all_points))
                      central == get_nearest_stations(cache, now, center_lat, center_lon,
                                                    SearchRadius, NearestLimit, http)
                      potential == [i \in 1..Len(central.stations) |->
                                      StationVenue(central.stations[i])]
                  IN /\ gen_pc' = "returned"
                     /\ gen_http' = Some(http)
                     /\ catalog_queried' = TRUE
                     /\ cache' = central.cache
                     /\ gen_result' = Some(Take(potential, limit))
  /\ UNCHANGED <<fairness_weight, optVars, scoreVars, tflVars, timeVars>>

----------------------------------------------------------------------------
(* Quotes and lookups made one after another while the time advances *)

MaxTicks == 2

MaxRequests == 3

\* the time advances by four minutes or by a day
Steps == {240, CACHE_TIMEOUT}

Tick ==
  /\ ticks < MaxTicks
  /\ \E d \in Steps : now' = now + d
  /\ ticks' = ticks + 1
  /\ UNCHANGED <<requests, last, quoted_at>>
  /\ UNCHANGED <<fairness_weight, optVars, scoreVars, tflVars, genVars>>

\* the coordinate pairs quoted: <<from_lat, from_lon, to_lat, to_lon>>
QuotePairs == {<<0, 0, 1, 1>>, <<1, 1, 0, 0>>}

\* what the network may answer to a quote: an error or one itinerary
QuoteHttpOutcomes ==
  {HttpError} \cup {HttpOk(JourneyData(<<Itinerary(d)>>)) : d \in 1..MaxDuration}

\* the time of the last successful quote of a pair, None when there was none
QuotedAt(q, pair) == IF pair \in DOMAIN q THEN Some(q[pair]) ELSE None

\* a caller asks calculate_journey_time for a quote of a pair
JourneyQuote ==
  /\ requests < MaxRequests
  /\ \E pair \in QuotePairs, http \in QuoteHttpOutcomes :
       LET r == calculate_journey_time(cache, now, pair[1], pair[2], pair[3], pair[4], http)
       IN /\ last' = Some([pair |-> pair, at |-> now, http |-> http,
                           cache_before |-> cache, quoted_before |-> QuotedAt(quoted_at, pair),
                           value |-> r.value, contacted |-> r.contacted])
          /\ cache' = r.cache
          /\ quoted_at' = IF r.value # None THEN (pair :> now) @@ quoted_at ELSE quoted_at
  /\ requests' = requests + 1
  /\ UNCHANGED <<now, ticks>>
  /\ UNCHANGED <<gen_pc, gen_participants, gen_limit, gen_http, catalog_queried, gen_result>>
  /\ UNCHANGED <<fairness_weight, optVars, scoreVars, tflVars>>

\* {} as a response
EmptyDict == JsonDict({}, <<>>, <<>>)

Queries == {"kings"}

StationIds == {"stA"}

NearbyPoints == {[lat |-> 1, lon |-> 1]}

LineIdLists == {None}

\* what the network may answer to each lookup: an error, an empty response or
\* one of two responses with content
SearchHttpOutcomes ==
  {HttpError, HttpOk(EmptyDict), HttpOk(SearchData(<<"m1">>)), HttpOk(SearchData(<<"m2">>))}

StationByIdHttpOutcomes ==
  {HttpError, HttpOk(EmptyDict), HttpOk(StationData("stA")), HttpOk(StationData("stB"))}

NearbyHttpOutcomes ==
  {HttpError, HttpOk(EmptyDict)}
  \cup {HttpOk(JsonDict({"stopPoints"}, <<>>, <<st>>)) : st \in {Station("stA", 1, 1, 5),
                                                                Station("stB", 1, 0, 3)}}

LineStatusHttpOutcomes ==
  {HttpError, HttpOk(LineStatusData(<<>>)), HttpOk(LineStatusData(<<"good">>)),
   HttpOk(LineStatusData(<<"delays">>))}

\* the bookkeeping of a lookup op that gave r and returned value
Lookup(op, r, value, http) ==
  /\ last' = Some([op |-> op, cache_key |-> r.cache_key, at |-> now, http |-> http,
                   cache_before |-> cache, response |-> r.response, value |-> value,
                   contacted |-> r.contacted])
  /\ cache' = r.cache
  /\ requests' = requests + 1
  /\ UNCHANGED <<now, ticks, quoted_at>>
  /\ UNCHANGED <<gen_pc, gen_participants, gen_limit, gen_http, catalog_queried, gen_result>>
  /\ UNCHANGED <<fairness_weight, optVars, scoreVars, tflVars>>

SearchStations ==
  /\ requests < MaxRequests
  /\ \E query \in Queries, http \in SearchHttpOutcomes :
       LET r == search_stations(cache, now, query, http)
       IN Lookup("search_stations", r, r.value, http)

GetStationById ==
  /\ requests < MaxRequests
  /\ \E station_id \in StationIds, http \in StationByIdHttpOutcomes :
       LET r == get_station_by_id(cache, now, station_id, http)
       IN Lookup("get_station_by_id", r, r.value, http)

GetStationNearby ==
  /\ requests < MaxRequests
  /\ \E at \in NearbyPoints, http \in NearbyHttpOutcomes :
       LET r == get_station_nearby(cache, now, at.lat, at.lon, SearchRadius, http)
       IN Lookup("get_station_nearby", r, r.stations, http)

GetLineStatus ==
  /\ requests < MaxRequests
  /\ \E line_ids \in LineIdLists, http \in LineStatusHttpOutcomes :
       LET r == get_line_status(cache, now, line_ids, http)
       IN Lookup("get_line_status", r, r.value, http)

----------------------------------------------------------------------------
(* Specifications *)

OptIdle ==
  /\ pc = "idle"
  /\ participants_data = <<>>
  /\ callerVenues = <<>>
  /\ heap = <<>>
  /\ max_candidates = 0
  /\ potential_venues = <<>>
  /\ evaluated = <<>>
  /\ venue_scores = <<>>
  /\ scored = <<>>
  /\ quotes = <<>>
  /\ result = None

ScoreIdle == sc_times = None /\ sc_score = None

TflIdle == tfl_call = None /\ tfl_fastest = 0 /\ tfl_result = None

GenIdle ==
  /\ gen_pc = "idle"
  /\ gen_participants = <<>>
  /\ gen_limit = 0
  /\ gen_http = None
  /\ catalog_queried = FALSE
  /\ cache = <<>>
  /\ gen_result = None

TimeIdle ==
  /\ now = 0
  /\ ticks = 0
  /\ requests = 0
  /\ last = None
  /\ quoted_at = <<>>

\* MeetupOptimizationService() with the default fairness weight, nothing called yet
Init ==
  /\ fairness_weight = DefaultFairnessWeight
  /\ OptIdle /\ ScoreIdle /\ TflIdle /\ GenIdle /\ TimeIdle

Next == find_optimal_meeting_point \/ ScoreVenue \/ SkipVenue

Spec == Init /\ [][Next]_vars

\* the service built with any fairness weight of [0, 1]; _calculate_journey_score is called
InitScore ==
  /\ fairness_weight \in FairnessWeights
  /\ OptIdle /\ ScoreIdle /\ TflIdle /\ GenIdle /\ TimeIdle

NextScore == CalculateJourneyScoreCall

SpecScore == InitScore /\ [][NextScore]_vars

NextTfl == CalculateJourneyTimeCall

SpecTfl == Init /\ [][NextTfl]_vars

NextGen == get_potential_meeting_venues

SpecGen == Init /\ [][NextGen]_vars

NextQuote == JourneyQuote \/ Tick

SpecQuote == Init /\ [][NextQuote]_vars

NextCache == SearchStations \/ GetStationById \/ GetStationNearby \/ GetLineStatus \/ Tick

SpecCache == Init /\ [][NextCache]_vars

----------------------------------------------------------------------------
(* Properties of find_optimal_meeting_point, checked under Spec *)

\* the position of venue r in the caller's list
Pos(r) == CHOOSE i \in 1..Len(callerVenues) : callerVenues[i] = r

Range(s) == {s[i] : i \in 1..Len(s)}

\* a leg whose quote is None
HasFailedLeg(qs) == \E p \in 1..Len(qs) : qs[p].out = None \/ qs[p].ret = None

\* the index in scored of the venue the call returned
ReturnedIndex == CHOOSE i \in 1..Len(scored) : heap[scored[i].venue].id = result[1].id

\* C1: a candidate with a failed leg (calculate_journey_time returned None) is
\* excluded from the ranking and is never the returned venue; the candidates whose
\* legs all succeeded are ranked, and a venue is returned when there is one.
C1_FailedLegExcludesCandidate ==
  pc = "returned" =>
    /\ \A i \in 1..Len(scored) : ~HasFailedLeg(quotes[i])
    /\ result # None => ~HasFailedLeg(quotes[ReturnedIndex])
    /\ (\E i \in 1..Len(scored) : ~HasFailedLeg(quotes[i])) => result # None

\* scored[i] has the least score, and is the first of the scored venues to have it
FirstMinimal(i) ==
  /\ \A j \in 1..Len(scored) : ScoreLeq(scored[i].score, scored[j].score)
  /\ \A j \in 1..(i - 1) : ~ScoreLeq(scored[j].score, scored[i].score)

\* C2: with participants and at least one scored candidate, the returned venue is
\* the first candidate, in evaluation order, of least score, and it carries that
\* score and that candidate's journey-time list.
C2_ReturnsFirstMinimalScore ==
  (pc = "returned" /\ participants_data # <<>> /\ scored # <<>>) =>
    /\ result # None
    /\ \E i \in 1..Len(scored) :
         /\ FirstMinimal(i)
         /\ result[1].id = heap[scored[i].venue].id
         /\ result[1].lat = heap[scored[i].venue].lat
         /\ result[1].lon = heap[scored[i].venue].lon
         /\ result[1].score = scored[i].score
         /\ result[1].journey_times = scored[i].journey_times

\* two scored venues tie on the least score with different totals, and the earlier is returned
C2_Witness ==
  /\ pc = "returned" /\ Len(participants_data) = 2 /\ Len(scored) = 2
  /\ ScoreEq(scored[1].score, scored[2].score)
  /\ scored[1].score.total # scored[2].score.total
  /\ result # None /\ result[1].id = heap[scored[1].venue].id

\* C3: the call never raises; with no candidates and no participants it returns None.
C3_NeverRaises ==
  /\ pc # "raised"
  /\ (pc = "returned" /\ callerVenues = <<>> /\ participants_data = <<>>) => result = None

\* C5: a venue of infinite score is never returned; the result is None when no
\* candidate has a finite score.
C5_InfiniteScoreNeverReturned ==
  pc = "returned" =>
    /\ result # None => ~result[1].score.inf
    /\ (\A i \in 1..Len(scored) : scored[i].score.inf) => result = None

\* the distance of venue r to the centroid of the start points, squared and
\* scaled by the square of the number of participants
StartCentroidDist2(r) ==
  LET n == Len(participants_data)
      slat == SumSeq([i \in 1..n |-> participants_data[i].start_lat])
      slon == SumSeq([i \in 1..n |-> participants_data[i].start_lon])
      dlat == n * heap[r].lat - slat
      dlon == n * heap[r].lon - slon
  IN dlat * dlat + dlon * dlon

PrefilterApplies ==
  /\ pc \in {"loop", "returned"}
  /\ Len(callerVenues) > max_candidates
  /\ participants_data # <<>>

\* C6: with more candidates than max_candidates and some participant, exactly
\* max_candidates candidates are evaluated, none farther from the centroid of the
\* start points than a dropped one, ties going to the earlier of the input list.
C6_PrefilterKeepsNearest ==
  PrefilterApplies =>
    /\ Len(potential_venues) = max_candidates
    /\ Cardinality(Range(potential_venues)) = max_candidates
    /\ Range(potential_venues) \subseteq Range(callerVenues)
    /\ \A r \in Range(potential_venues) :
         \A d \in Range(callerVenues) \ Range(potential_venues) :
           /\ StartCentroidDist2(r) <= StartCentroidDist2(d)
           /\ StartCentroidDist2(r) = StartCentroidDist2(d) => Pos(r) < Pos(d)
    /\ \A i, j \in 1..Len(potential_venues) :
         (i < j /\ StartCentroidDist2(potential_venues[i])
                     = StartCentroidDist2(potential_venues[j]))
           => Pos(potential_venues[i]) < Pos(potential_venues[j])
    /\ evaluated = SubSeq(potential_venues, 1, Len(evaluated))
    /\ pc = "returned" => evaluated = potential_venues

\* the call returned after keeping one venue that is not the first of the input
\* and dropping a later venue at the same distance
C6_Witness ==
  /\ PrefilterApplies /\ pc = "returned" /\ max_candidates >= 1
  /\ potential_venues # SubSeq(callerVenues, 1, max_candidates)
  /\ \E r \in Range(potential_venues) :
       \E d \in Range(callerVenues) \ Range(potential_venues) :
         StartCentroidDist2(r) = StartCentroidDist2(d)

PrefilterIsNoOp == pc \in {"loop", "returned"} /\ Len(callerVenues) <= max_candidates

C7_EvaluatesAllInOrder ==
  PrefilterIsNoOp =>
    /\ potential_venues = callerVenues
    /\ evaluated = SubSeq(callerVenues, 1, Len(evaluated))
    /\ pc = "returned" => evaluated = callerVenues

C7_CallerDataUntouched ==
  PrefilterIsNoOp => (callerVenues' = callerVenues /\ heap' = heap)

\* C7: with no more candidates than max_candidates every supplied candidate is
\* evaluated, in the input order, and neither the caller's list nor its venue
\* dicts are modified.
C7_NoOpPrefilterAndFrame ==
  []C7_EvaluatesAllInOrder /\ [][C7_CallerDataUntouched]_vars

\* two venues, the second nearer to the centroid than the first, both evaluated
\* and one of them returned
C7_Witness ==
  /\ PrefilterIsNoOp /\ pc = "returned" /\ participants_data # <<>>
  /\ Len(callerVenues) = 2 /\ evaluated = callerVenues
  /\ StartCentroidDist2(callerVenues[2]) < StartCentroidDist2(callerVenues[1])
  /\ result # None

\* the minutes of a quote as the round trip counts them: a missing quote counts 0;
\* a present quote is the least duration the planner lists for the leg
LegMinutes(q, from_lat, from_lon, to_lat, to_lon) ==
  IF q = None THEN 0 ELSE TravelMinutes(from_lat, from_lon, to_lat, to_lon)

QuoteIsOf(q, from_lat, from_lon, to_lat, to_lon) ==
  q # None => q = Some(TravelMinutes(from_lat, from_lon, to_lat, to_lon))

RoundTripsOf(i) ==
  LET v == heap[scored[i].venue]
      jt == scored[i].journey_times
  IN /\ Len(jt) = Len(participants_data)
     /\ Len(quotes[i]) = Len(participants_data)
     /\ \A p \in 1..Len(participants_data) :
          LET who == participants_data[p]
              q == quotes[i][p]
          IN /\ QuoteIsOf(q.out, who.start_lat, who.start_lon, v.lat, v.lon)
             /\ QuoteIsOf(q.ret, v.lat, v.lon, who.end_lat, who.end_lon)
             /\ jt[p] = LegMinutes(q.out, who.start_lat, who.start_lon, v.lat, v.lon)
                        + LegMinutes(q.ret, v.lat, v.lon, who.end_lat, who.end_lon)

\* C8: every scored candidate's journey_times has one entry per participant, in
\* participant order, entry i being participant i's outbound quote plus return
\* quote (a missing quote counting 0 minutes); so has the returned venue's list.
C8_JourneyTimesPerParticipant ==
  /\ Len(quotes) = Len(scored)
  /\ \A i \in 1..Len(scored) : RoundTripsOf(i)
  /\ (pc = "returned" /\ result # None) =>
       /\ Len(result[1].journey_times) = Len(participants_data)
       /\ result[1].journey_times = scored[ReturnedIndex].journey_times

\* a venue is returned whose four quotes all succeeded and whose two round trips differ
C8_Witness ==
  /\ pc = "returned" /\ result # None /\ Len(participants_data) = 2
  /\ ~HasFailedLeg(quotes[ReturnedIndex])
  /\ result[1].journey_times[1] # result[1].journey_times[2]

----------------------------------------------------------------------------
(* Properties of get_potential_meeting_venues, checked under SpecGen *)

\* C4: called with an empty participant list, get_potential_meeting_venues
\* returns an empty list, without querying the station catalog.
C4_EmptyParticipantsEmptyList ==
  (gen_pc # "idle" /\ gen_participants = <<>>) =>
    /\ gen_pc = "returned"
    /\ gen_result = Some(<<>>)
    /\ ~catalog_queried

----------------------------------------------------------------------------
(* Properties of _calculate_journey_score, checked under SpecScore *)

\* the score that is the number k, under the weight of the service
Exactly(k) == FiniteScore(fairness_weight, k, 0)

SumOfSquares(times) == SumSeq([i \in 1..Len(times) |-> times[i] * times[i]])

\* C9: for a non-empty list and a weight of [0, 1] the score is
\* sum + weight * population stddev * len; it is at least the sum, and equal to
\* it for one element or all elements equal (score([10]) = 10, score([10,10]) = 20;
\* at weight 1/2, score([12,12]) = 24 and score([8,20]) = 34).
C9_ScoreFormula ==
  (sc_times # None /\ sc_times[1] # <<>>) =>
    LET times == sc_times[1]
        n == Len(times)
        score == sc_score[1]
    IN /\ ~score.inf
       /\ score.total = SumSeq(times)
       /\ score.w_num = fairness_weight.num /\ score.w_den = fairness_weight.den
       /\ 0 <= score.w_num /\ score.w_num <= score.w_den
       \* (len * population stddev)^2 = len * sum of squares - (sum)^2
       /\ score.nstd2 = n * SumOfSquares(times) - SumSeq(times) * SumSeq(times)
       /\ ScoreLeq(Exactly(SumSeq(times)), score)
       /\ (n = 1 \/ \A i \in 1..n : times[i] = times[1]) => ScoreEq(score, Exactly(SumSeq(times)))
       /\ times = <<10>> => ScoreEq(score, Exactly(10))
       /\ times = <<10, 10>> => ScoreEq(score, Exactly(20))
       /\ (times = <<12, 12>> /\ fairness_weight = DefaultFairnessWeight)
            => ScoreEq(score, Exactly(24))
       /\ (times = <<8, 20>> /\ fairness_weight = DefaultFairnessWeight)
            => ScoreEq(score, Exactly(34))

\* the score of [8, 20] at weight 1/2 was computed, and exceeds the sum 28
C9_Witness ==
  /\ sc_times = Some(<<8, 20>>) /\ fairness_weight = DefaultFairnessWeight
  /\ ScoreEq(sc_score[1], Exactly(34))
  /\ ~ScoreLeq(sc_score[1], Exactly(28))

----------------------------------------------------------------------------
(* Properties of calculate_journey_time, checked under SpecTfl *)

\* the itineraries of a successful response that lists some, else <<>>
ReturnedItineraries(http) ==
  IF http.ok /\ "journeys" \in http.data[1].keys THEN http.data[1].journeys ELSE <<>>

----------------------------------------------------------------------------
(* Properties of repeated quotes, checked under SpecQuote *)

\* the quote just made follows a successful quote of the same pair made less
\* than CACHE_TIMEOUT seconds before it
RepeatedQuote ==
  /\ last # None
  /\ last[1].quoted_before # None
  /\ last[1].at - last[1].quoted_before[1] < CACHE_TIMEOUT

\* C11 as stated: after one successful quote for a coordinate pair, a second
\* quote for the same pair within the time-to-live is answered from the cache,
\* without a new request to the oracle.
C11_SecondQuoteFromCache == RepeatedQuote => ~last[1].contacted

\* C11, amended: journey quotes are not cached.  Every quote, a repeated one
\* included, makes a new request to the oracle and returns what that request
\* gives, and no quote writes to the cache.
C11_QuotesNeverCached ==
  last # None =>
    /\ last[1].contacted
    /\ cache = last[1].cache_before
    /\ DOMAIN cache = {}
    /\ last[1].value = IF last[1].http.ok THEN last[1].http.data[1].journeys[1].duration
                       ELSE None

\* a pair quoted successfully is quoted again four minutes later: the oracle
\* is asked again and its answer, 1 minute, is returned
C11_Witness ==
  /\ RepeatedQuote
  /\ last[1].at = last[1].quoted_before[1] + 240
  /\ last[1].contacted
  /\ last[1].value = Some(1)

----------------------------------------------------------------------------
(* Properties of the cached lookups, checked under SpecCache *)

\* the lifetime the lookups are said to have, in seconds
Lifetime(op) == IF op = "get_line_status" THEN 5 * 60 ELSE 24 * 60 * 60

\* an entry is stored under the key and has not expired at time t
Stored(c, t, key) == key \in DOMAIN c /\ t < c[key].expires

\* C12: a successful response is stored under the cache key for the lookup's
\* lifetime (24 hours, 5 minutes for line status); a later request with the
\* same key before the entry expires returns the stored response without
\* contacting the network, whatever its content; a failed request leaves the
\* cache as it was.
C12_StoredResponseServed ==
  last # None =>
    LET l == last[1]
    IN /\ Stored(l.cache_before, l.at, l.cache_key) =>
            /\ ~l.contacted
            /\ l.response = Some(l.cache_before[l.cache_key].data)
            /\ cache = l.cache_before
       /\ (l.contacted /\ l.http.ok) =>
            /\ l.response = l.http.data
            /\ cache[l.cache_key] = [data |-> l.http.data[1],
                                      expires |-> l.at + Lifetime(l.op)]
            /\ \A k \in DOMAIN l.cache_before \ {l.cache_key} :
                   k \in DOMAIN cache /\ cache[k] = l.cache_before[k]
       /\ (l.contacted /\ ~l.http.ok) =>
            /\ l.response = None
            /\ cache = l.cache_before

====
